---------------------------- MODULE Spec2Model ----------------------------
(***************************************************************************)
(* speech-notebook: the capture -> batch -> transcribe -> deliver pipeline *)
(* of audio_transcribe.py (MicrophoneStream, AudioTranscriber), the        *)
(* batcher of transcriber.py (MicrophoneStream.collect), the window of     *)
(* mainWindow.py (record button, document, _write_back, _cleanup_tags),    *)
(* and the window of mainwindow.py with the worker of transcriber.py       *)
(* (record button, document, font size).                                   *)
(*                                                                         *)
(* Threads of one session:                                                 *)
(*   device  PortAudio's callback thread       (_fill_buffer)              *)
(*   loop    the asyncio loop of the QThread   (_run, generate, _copier,   *)
(*           and the callbacks scheduled with call_soon_threadsafe)        *)
(*   worker  the asyncio.to_thread thread      (_transcribe)               *)
(*   gui     the Qt main thread                (stop(), the slots the      *)
(*           queued signals progress / finished are delivered to)          *)
(*                                                                         *)
(* Durations are counted in sample periods (1/RATE s), so that             *)
(* CHUNK_DURATION = CHUNK / RATE seconds is CHUNK periods and              *)
(* MAX_LENGTH_PER_REQUEST seconds are MAX_LENGTH_PER_REQUEST * RATE        *)
(* periods: the comparisons of the code are exact in integers.             *)
(***************************************************************************)
EXTENDS Integers, Sequences, FiniteSets, TLC

VARIABLES
    conf,        \* the module constants of the session: rate, chunk, cap, variant
    devState,    \* the PortAudio stream: "closed", "active", "aborted", "stopped"
    nframes,     \* callbacks the device thread has made so far, in all sessions
    faulted,     \* a callback has seen paInputUnderflow / paInputOverflow and raised
    ready,       \* loop._ready: callbacks scheduled with call_soon_threadsafe, FIFO
    in_buff,     \* MicrophoneStream._in_buff (asyncio.Queue)
    length,      \* generate(): length
    data,        \* generate(): data, as the ids of the frames it concatenates
    genPc,       \* generate(): "idle", "waiting" (in await _in_buff.get()), "done"
    audio_buff,  \* _run: audio_buffer (queue.Queue), generate's _out_buff
    wPc,         \* _transcribe: "idle", "get", "recognize", "done", "raised"
    wContent,    \* _transcribe: content, the batch of the call in flight
    text_queue,  \* _run: text_queue (asyncio.Queue)
    cPc,         \* _copier: "idle", "waiting", "done"
    pcRun,       \* _run: "created", "running", "exited", "emitted", "closed"
    guiEvents,   \* queued signal deliveries posted to the GUI thread, FIFO
    received,    \* the signals the consumer's slots have handled, in order
    stops,       \* the outcome of each stop() call made by the GUI thread
    outHist,     \* history: every item put on audio_buff, in order
    calls,       \* history: every client.recognize call, in order, with its outcome
    atStop,      \* history: frames handed off and not yet flushed when stop() took effect
    faultSnap,   \* history: what had been handed off, batched and called at the fault
    taken,       \* history: the frames generate() has taken from _in_buff, in order
    recording,   \* MainWindow.recording
    worker,      \* MainWindow.worker: the number of the AudioTranscriber, 0 for None
    thread,      \* MainWindow.transcribe_thread: "none", "started", "quit",
                 \* "finished", and "aborted" once the application has aborted
    btnEnabled,  \* record_btn.isEnabled()
    btnDown,     \* record_btn.isDown(): pressed and not yet released
    doc,         \* the document of text_edit, as a sequence of tokens
    cursor,      \* text_edit.textCursor().position(), in tokens
    drained,     \* history: the batches of the text events _write_back has handled
                 \* since stop_recording(), in order
    vRun,        \* mainwindow.py's worker (transcriber.py): "none", "created",
                 \* "entered", "raised", "closed", and "aborted" once the
                 \* application has aborted
    vStops,      \* the outcome of each stop() call on that worker
    vReady,      \* the cleanups scheduled on the loop of that worker
    vEvents,     \* queued signal deliveries to the slots of mainwindow.py, FIFO
    vDoc,        \* mainwindow.py: the document of text_edit, as tokens
    vCursor,     \* mainwindow.py: text_edit.textCursor().position(), in tokens
    vBtnEnabled, \* mainwindow.py: record_btn.isEnabled()
    vBtnDown,    \* mainwindow.py: record_btn.isDown()
    font_config, \* mainwindow.py: config['FONT_SIZE'] as the window was given it
    font_size,   \* mainwindow.py: MainWindow.font_size
    point_size   \* mainwindow.py: text_edit.font().pointSize()

vars == <<conf, devState, nframes, faulted, ready, in_buff, length, data, genPc,
          audio_buff, wPc, wContent, text_queue, cPc, pcRun, guiEvents, received,
          stops, outHist, calls, atStop, faultSnap, taken, recording, worker,
          thread, btnEnabled, btnDown, doc, cursor, drained, vRun, vStops, vReady,
          vEvents, vDoc, vCursor, vBtnEnabled, vBtnDown, font_config, font_size,
          point_size>>

\* the variables of the window of mainWindow.py
consumer == <<recording, worker, thread, btnEnabled, btnDown, doc, cursor, drained>>

\* the variables of the window of mainwindow.py and of its worker
voice == <<vRun, vStops, vReady, vEvents, vDoc, vCursor, vBtnEnabled, vBtnDown,
           font_config, font_size, point_size>>

---------------------------------------------------------------------------
(* Bounds of the model. *)

\* callbacks the device thread makes in one session of the pipeline
MaxFrames == 2
\* stop() calls the GUI thread makes in one session
MaxStops == 2
\* callbacks of one batch cycle with the constants of the two modules
MaxFullFrames == 470
\* the per-request cap, in seconds, of the scaled-down session of the pipeline
SmallCap == 4
\* the longest duration, in seconds, of the equal frames fed to a batcher
MaxSeconds == 5
\* equal frames fed to a batcher
MaxEqualFrames == 6

---------------------------------------------------------------------------
(* Module constants. *)

RATE == 16000
CHUNK == 1024
MAX_LENGTH_PER_REQUEST == 15
COLLECT_MAX_LENGTH_PER_REQUEST == 30

\* audio_transcribe.py as written
GenerateConf == [rate |-> RATE, chunk |-> CHUNK, cap |-> MAX_LENGTH_PER_REQUEST,
                 variant |-> "generate"]
\* transcriber.py as written
CollectConf == [rate |-> RATE, chunk |-> CHUNK, cap |-> COLLECT_MAX_LENGTH_PER_REQUEST,
                variant |-> "collect"]
\* audio_transcribe.py with one sample per chunk and one chunk per second, so
\* that a batch fills within MaxFrames callbacks
SmallConf == [rate |-> 1, chunk |-> 1, cap |-> SmallCap, variant |-> "generate"]

\* CHUNK_DURATION and MAX_LENGTH_PER_REQUEST in sample periods
ChunkDuration(c) == c.chunk
Cap(c) == c.cap * c.rate

---------------------------------------------------------------------------
(* Values. *)

\* (copy.copy(in_data), duration): the audio is named by the callback's number
Frame(n, d) == [id |-> n, duration |-> d]
\* the None that MicrophoneStream.stop() puts on _in_buff
NoFrame == [id |-> 0, duration |-> 0]

\* the bytes put on _out_buff; no is the put's number and duration the length
\* accumulated, both kept beside the bytes for the properties
Batch(n, ids, len) == [none |-> FALSE, no |-> n, data |-> ids, duration |-> len]
\* the None that generate() puts last
NoBatch == [none |-> TRUE, no |-> 0, data |-> <<>>, duration |-> 0]

\* a transcript: that of batch b, the empty string when empty is TRUE
Text(b, e) == [none |-> FALSE, batch |-> b, empty |-> e]
\* the None that _transcribe hands to the callback last
NoText == [none |-> TRUE, batch |-> 0, empty |-> FALSE]

\* the tokens of the document: the content the user has written, the
\* transcript of batch b of worker w, the to-finish tag, and the tag's
\* source inserted as plain text
UserText == [kind |-> "user", worker |-> 0, batch |-> 0]
TextToken(w, b) == [kind |-> "text", worker |-> w, batch |-> b]
TO_FINISH_PLACE_HOLDER == [kind |-> "tag", worker |-> 0, batch |-> 0]
PlainPlaceHolder == [kind |-> "plain", worker |-> 0, batch |-> 0]
\* text n of the user's that carries a character format of its own (pasted
\* rich text), which toHtml() writes as a styled span
StyledText(n) == [kind |-> "styled", worker |-> 0, batch |-> n]

\* callbacks on the loop
InPut(item) == [cb |-> "in_put", item |-> item, text |-> NoText]
TextPut(t) == [cb |-> "text_put", item |-> NoFrame, text |-> t]
Cleanup == [cb |-> "cleanup", item |-> NoFrame, text |-> NoText]

\* signals
ProgressText(t) == [sig |-> "progress", html |-> FALSE, batch |-> t.batch]
ProgressMarker == [sig |-> "progress", html |-> TRUE, batch |-> 0]
Finished == [sig |-> "finished", html |-> FALSE, batch |-> 0]

Statuses == {"paContinue", "paInputUnderflow", "paInputOverflow"}
\* measured durations: none, a chunk, the largest accepted, the smallest rejected
Durations(c) == {0, ChunkDuration(c), 3 * ChunkDuration(c), 3 * ChunkDuration(c) + 1}
\* what client.recognize does: a transcript, the empty transcript, no result or
\* no alternative, an exception
Outcomes == {"text", "emptystr", "noresult", "raise"}

\* the batches put on the batch queue so far
Batches == {i \in DOMAIN outHist : ~outHist[i].none}

\* the frames in the hand-off queue ahead of any sentinel
RECURSIVE Ahead(_)
Ahead(q) ==
    IF q = <<>> \/ Head(q) = NoFrame THEN {} ELSE {Head(q).id} \cup Ahead(Tail(q))

\* the frames handed off and not yet flushed: in the hand-off queue ahead of
\* the sentinel, or in the accumulator
Unflushed == Ahead(in_buff) \cup {data[i] : i \in DOMAIN data}

\* the frames the device callback has handed off so far
Handed ==
    {ready[i].item.id : i \in {j \in DOMAIN ready : ready[j].cb = "in_put"}}
      \cup {in_buff[i].id : i \in {j \in DOMAIN in_buff : in_buff[j] # NoFrame}}
      \cup {data[i] : i \in DOMAIN data}
      \cup UNION {{outHist[i].data[k] : k \in DOMAIN outHist[i].data} : i \in Batches}

---------------------------------------------------------------------------
(* MicrophoneStream._fill_buffer *)

\* a callback that accepts any positive duration
ValidUnbounded(c, d) == d > 0

Valid(c, d) == ~(d <= 0 \/ d > ChunkDuration(c) * 3)

Fault(status) == status \in {"paInputUnderflow", "paInputOverflow"}

\* a callback that puts the frame itself and waits while the hand-off queue
\* holds a frame or a put is still scheduled
FillBufferBlocking(status, d) ==
    /\ devState = "active"
    /\ nframes < MaxFrames
    /\ in_buff = <<>>
    /\ \A i \in DOMAIN ready : ready[i].cb # "in_put"
    /\ nframes' = nframes + 1
    /\ IF Fault(status)
         THEN /\ devState' = "aborted"
              /\ faulted' = TRUE
              /\ faultSnap' = [handed |-> Handed, batches |-> Cardinality(Batches),
                                calls |-> Len(calls), recording |-> stops = <<>>]
              /\ UNCHANGED ready
         ELSE /\ ready' = IF Valid(conf, d)
                            THEN Append(ready, InPut(Frame(nframes + 1, d)))
                            ELSE ready
              /\ UNCHANGED <<devState, faulted, faultSnap>>
    /\ UNCHANGED <<conf, in_buff, length, data, genPc, audio_buff, wPc, wContent,
                   text_queue, cPc, pcRun, guiEvents, received, stops, outHist,
                   calls, atStop, taken, consumer, voice>>

\* the device thread calls back. A callback that raises makes PortAudio abort
\* the stream (PyAudio answers paAbort for it): no callback follows.
FillBuffer(status, d) ==
    /\ devState = "active"
    /\ nframes < MaxFrames
    /\ nframes' = nframes + 1
    /\ IF Fault(status)
         THEN /\ devState' = "aborted"
              /\ faulted' = TRUE
              /\ faultSnap' = [handed |-> Handed, batches |-> Cardinality(Batches),
                                calls |-> Len(calls), recording |-> stops = <<>>]
              /\ UNCHANGED ready
         ELSE /\ ready' = IF Valid(conf, d)
                            THEN Append(ready, InPut(Frame(nframes + 1, d)))
                            ELSE ready
              /\ UNCHANGED <<devState, faulted, faultSnap>>
    /\ UNCHANGED <<conf, in_buff, length, data, genPc, audio_buff, wPc, wContent,
                   text_queue, cPc, pcRun, guiEvents, received, stops, outHist,
                   calls, atStop, taken, consumer, voice>>

---------------------------------------------------------------------------
(* MicrophoneStream.generate / MicrophoneStream.collect *)

\* a flush test with a margin of three chunk durations
GenerateFlushDueThreeChunks(c, len) == Cap(c) - len < ChunkDuration(c) * 3

\* audio_transcribe.py: MAX_LENGTH_PER_REQUEST - length < CHUNK_DURATION * 2
GenerateFlushDue(c, len) == Cap(c) - len < ChunkDuration(c) * 2
\* a flush test that is strict
CollectFlushDueStrict(c, len) == Cap(c) - len < ChunkDuration(c)

\* transcriber.py: MAX_LENGTH_PER_REQUEST - length <= CHUNK_DURATION
CollectFlushDue(c, len) == Cap(c) - len <= ChunkDuration(c)

FlushDue(c, len) ==
    IF c.variant = "generate" THEN GenerateFlushDue(c, len) ELSE CollectFlushDue(c, len)

\* a finally block that puts None alone
RemainderDropped(n, ids, len) == <<NoBatch>>

\* a finally block that puts the accumulator whatever its length
RemainderAlways(n, ids, len) == <<Batch(n, ids, len), NoBatch>>

\* a finally block that puts None before the remainder
RemainderAfterNone(n, ids, len) ==
    IF len > 0 THEN <<NoBatch, Batch(n, ids, len)>> ELSE <<NoBatch>>

\* the finally block: the remainder, then None
Remainder(n, ids, len) ==
    IF len > 0 THEN <<Batch(n, ids, len), NoBatch>> ELSE <<NoBatch>>

\* a loop that flushes and keeps what it has accumulated
BatcherTurnNoReset(c, len, ids, item, nput) ==
    IF item = NoFrame
      THEN [length |-> len, data |-> ids, put |-> Remainder(nput + 1, ids, len),
            done |-> TRUE]
      ELSE LET ids2 == Append(ids, item.id)
               len2 == len + item.duration
           IN IF FlushDue(c, len2)
                THEN [length |-> 0, data |-> ids2,
                      put |-> <<Batch(nput + 1, ids2, len2)>>, done |-> FALSE]
                ELSE [length |-> len2, data |-> ids2, put |-> <<>>, done |-> FALSE]

\* one turn of the loop on item, with nput items put so far: the new length and
\* data, what is put on _out_buff, and whether the coroutine has returned
BatcherTurn(c, len, ids, item, nput) ==
    IF item = NoFrame
      THEN [length |-> len, data |-> ids, put |-> Remainder(nput + 1, ids, len),
            done |-> TRUE]
      ELSE LET ids2 == Append(ids, item.id)
               len2 == len + item.duration
           IN IF FlushDue(c, len2)
                THEN [length |-> 0, data |-> <<>>,
                      put |-> <<Batch(nput + 1, ids2, len2)>>, done |-> FALSE]
                ELSE [length |-> len2, data |-> ids2, put |-> <<>>, done |-> FALSE]

\* the turn of the loop on item, applied to the coroutine's variables
BatcherApply(item) ==
    LET t == BatcherTurn(conf, length, data, item, Len(outHist))
    IN /\ length' = t.length
       /\ data' = t.data
       /\ audio_buff' = audio_buff \o t.put
       /\ outHist' = outHist \o t.put
       /\ genPc' = IF t.done THEN "done" ELSE "waiting"
       /\ taken' = IF item = NoFrame THEN taken ELSE Append(taken, item.id)

\* a generate() that shares its thread with client.recognize and so cannot
\* run while a call is in flight
GenerateBehindWorker ==
    /\ wPc # "recognize"
    /\ pcRun = "running"
    /\ genPc = "waiting"
    /\ in_buff # <<>>
    /\ BatcherApply(Head(in_buff))
    /\ in_buff' = Tail(in_buff)
    /\ UNCHANGED <<conf, devState, nframes, faulted, ready, wPc, wContent,
                   text_queue, cPc, pcRun, guiEvents, received, stops, calls,
                   atStop, faultSnap, consumer, voice>>

\* the coroutine resumes from await self._in_buff.get() with the head of the queue
Generate ==
    /\ pcRun = "running"
    /\ genPc = "waiting"
    /\ in_buff # <<>>
    /\ BatcherApply(Head(in_buff))
    /\ in_buff' = Tail(in_buff)
    /\ UNCHANGED <<conf, devState, nframes, faulted, ready, wPc, wContent,
                   text_queue, cPc, pcRun, guiEvents, received, stops, calls,
                   atStop, faultSnap, consumer, voice>>

---------------------------------------------------------------------------
(* AudioTranscriber.stop and the loop's callbacks *)

\* stop(), on the GUI thread. self.loop is assigned by _run and closed by
\* asyncio.run when _run has returned.
StopOutcome ==
    IF pcRun = "created" THEN "AttributeError"
    ELSE IF pcRun = "closed" THEN "RuntimeError"
    ELSE "scheduled"

\* the call: cleanup is scheduled on the loop, or the call raises
StopCall ==
    /\ stops' = Append(stops, StopOutcome)
    /\ ready' = IF StopOutcome = "scheduled" THEN Append(ready, Cleanup) ELSE ready

Stop ==
    /\ Len(stops) < MaxStops
    /\ StopCall
    /\ UNCHANGED <<conf, devState, nframes, faulted, in_buff, length, data, genPc,
                   audio_buff, wPc, wContent, text_queue, cPc, pcRun, guiEvents,
                   received, outHist, calls, atStop, faultSnap, taken, consumer, voice>>

\* a cleanup that stops the stream without emitting the to-finish tag
LoopRunNoMarker ==
    /\ pcRun \in {"running", "emitted"}
    /\ ready # <<>>
    /\ ready' = Tail(ready)
    /\ LET h == Head(ready)
       IN CASE h.cb = "in_put" ->
                 /\ in_buff' = Append(in_buff, h.item)
                 /\ UNCHANGED <<text_queue, guiEvents, atStop>>
            [] h.cb = "text_put" ->
                 /\ text_queue' = Append(text_queue, h.text)
                 /\ UNCHANGED <<in_buff, guiEvents, atStop>>
            [] h.cb = "cleanup" ->
                 /\ in_buff' = Append(in_buff, NoFrame)
                 /\ atStop' = IF atStop.set THEN atStop
                              ELSE [set |-> TRUE, frames |-> Unflushed]
                 /\ UNCHANGED <<text_queue, guiEvents>>
    /\ UNCHANGED <<conf, devState, nframes, faulted, length, data, genPc,
                   audio_buff, wPc, wContent, cPc, pcRun, received, stops, outHist,
                   calls, faultSnap, taken, consumer, voice>>

\* the loop runs the oldest scheduled callback: _in_buff.put_nowait(frame),
\* text_queue.put_nowait(text), or stop()'s cleanup
LoopRun ==
    /\ pcRun \in {"running", "emitted"}
    /\ ready # <<>>
    /\ ready' = Tail(ready)
    /\ LET h == Head(ready)
       IN CASE h.cb = "in_put" ->
                 /\ in_buff' = Append(in_buff, h.item)
                 /\ UNCHANGED <<text_queue, guiEvents, atStop>>
            [] h.cb = "text_put" ->
                 /\ text_queue' = Append(text_queue, h.text)
                 /\ UNCHANGED <<in_buff, guiEvents, atStop>>
            [] h.cb = "cleanup" ->
                 /\ guiEvents' = Append(guiEvents, ProgressMarker)
                 /\ in_buff' = Append(in_buff, NoFrame)
                 /\ atStop' = IF atStop.set THEN atStop
                              ELSE [set |-> TRUE, frames |-> Unflushed]
                 /\ UNCHANGED text_queue
    /\ UNCHANGED <<conf, devState, nframes, faulted, length, data, genPc,
                   audio_buff, wPc, wContent, cPc, pcRun, received, stops, outHist,
                   calls, faultSnap, taken, consumer, voice>>

---------------------------------------------------------------------------
(* AudioTranscriber._transcribe, on the worker thread *)

\* _callback(text): schedules text_queue.put_nowait on the loop
Callback(rdy, t) == Append(rdy, TextPut(t))

\* audio_buff.get() on a LifoQueue
AudioBuffGetLifo(q) == [item |-> q[Len(q)], rest |-> SubSeq(q, 1, Len(q) - 1)]

\* audio_buff.get(): the oldest item, which leaves the queue
AudioBuffGet(q) == [item |-> Head(q), rest |-> Tail(q)]

\* content = audio_buff.get(timeout=...) returns an item
WorkerGet ==
    /\ wPc = "get"
    /\ audio_buff # <<>>
    /\ LET content == AudioBuffGet(audio_buff).item
       IN /\ audio_buff' = AudioBuffGet(audio_buff).rest
          /\ IF content.none
               THEN /\ wPc' = "done"
                    /\ ready' = Callback(ready, NoText)
                    /\ UNCHANGED <<wContent, calls>>
               ELSE /\ wPc' = "recognize"
                    /\ wContent' = content
                    /\ calls' = Append(calls, [batch |-> content.no, outcome |-> "pending"])
                    /\ UNCHANGED ready
    /\ UNCHANGED <<conf, devState, nframes, faulted, in_buff, length, data, genPc,
                   text_queue, cPc, pcRun, guiEvents, received, stops, outHist,
                   atStop, faultSnap, taken, consumer, voice>>

\* audio_buff.get(timeout=MAX_LENGTH_PER_REQUEST) raises queue.Empty: nothing
\* was put for the whole timeout. The finally block hands None to the callback.
WorkerTimeout ==
    /\ wPc = "get"
    /\ audio_buff = <<>>
    /\ wPc' = "raised"
    /\ ready' = Callback(ready, NoText)
    /\ UNCHANGED <<conf, devState, nframes, faulted, in_buff, length, data, genPc,
                   audio_buff, wContent, text_queue, cPc, pcRun, guiEvents,
                   received, stops, outHist, calls, atStop, faultSnap, taken,
                   consumer, voice>>

\* a worker whose exception skips the hand-over of None
AfterRecognizeNoFinally(rdy, content, o) ==
    CASE o = "text" -> [pc |-> "get", ready |-> Callback(rdy, Text(content.no, FALSE))]
      [] o = "emptystr" -> [pc |-> "get", ready |-> Callback(rdy, Text(content.no, TRUE))]
      [] o = "noresult" -> [pc |-> "get", ready |-> rdy]
      [] o = "raise" -> [pc |-> "raised", ready |-> rdy]

\* a worker that treats an empty response as a failure and leaves
AfterRecognizeNoResultLeaves(rdy, content, o) ==
    CASE o = "text" -> [pc |-> "get", ready |-> Callback(rdy, Text(content.no, FALSE))]
      [] o = "emptystr" -> [pc |-> "get", ready |-> Callback(rdy, Text(content.no, TRUE))]
      [] o = "noresult" -> [pc |-> "raised", ready |-> Callback(rdy, NoText)]
      [] o = "raise" -> [pc |-> "raised", ready |-> Callback(rdy, NoText)]

\* what the worker does with the outcome o of client.recognize on content:
\* its next position and the loop's callbacks
AfterRecognize(rdy, content, o) ==
    CASE o = "text" -> [pc |-> "get", ready |-> Callback(rdy, Text(content.no, FALSE))]
      [] o = "emptystr" -> [pc |-> "get", ready |-> Callback(rdy, Text(content.no, TRUE))]
      [] o = "noresult" -> [pc |-> "get", ready |-> rdy]
      [] o = "raise" -> [pc |-> "raised", ready |-> Callback(rdy, NoText)]

\* client.recognize returns or raises
WorkerRecognize(o) ==
    /\ wPc = "recognize"
    /\ LET a == AfterRecognize(ready, wContent, o)
       IN /\ wPc' = a.pc
          /\ ready' = a.ready
    /\ calls' = [calls EXCEPT ![Len(calls)].outcome = o]
    /\ wContent' = NoBatch
    /\ UNCHANGED <<conf, devState, nframes, faulted, in_buff, length, data, genPc,
                   audio_buff, text_queue, cPc, pcRun, guiEvents, received, stops,
                   outHist, atStop, faultSnap, taken, consumer, voice>>

---------------------------------------------------------------------------
(* AudioTranscriber._copier *)

\* while text := await text_queue.get(): None and "" both end the loop
Falsy(t) == t.none \/ t.empty

Copier ==
    /\ pcRun = "running"
    /\ cPc = "waiting"
    /\ text_queue # <<>>
    /\ text_queue' = Tail(text_queue)
    /\ IF Falsy(Head(text_queue))
         THEN /\ cPc' = "done"
              /\ UNCHANGED guiEvents
         ELSE /\ guiEvents' = Append(guiEvents, ProgressText(Head(text_queue)))
              /\ UNCHANGED cPc
    /\ UNCHANGED <<conf, devState, nframes, faulted, ready, in_buff, length, data,
                   genPc, audio_buff, wPc, wContent, pcRun, received, stops,
                   outHist, calls, atStop, faultSnap, taken, consumer, voice>>

---------------------------------------------------------------------------
(* AudioTranscriber._run *)

\* _run is entered: self.loop and self.stream are set, the stream is opened,
\* the three tasks are created
RunStart ==
    /\ pcRun = "created"
    /\ pcRun' = "running"
    /\ devState' = "active"
    /\ genPc' = "waiting"
    /\ wPc' = "get"
    /\ cPc' = "waiting"
    /\ UNCHANGED <<conf, nframes, faulted, ready, in_buff, length, data,
                   audio_buff, wContent, text_queue, guiEvents, received, stops,
                   outHist, calls, atStop, faultSnap, taken, consumer, voice>>

\* a wait that does not include the transcriber task
AllCompletedButWorker == genPc = "done" /\ cPc = "done"

\* a wait that does not include the copier task
AllCompletedButCopier == genPc = "done" /\ wPc \in {"done", "raised"}

\* asyncio.wait(..., return_when=ALL_COMPLETED)
AllCompleted == genPc = "done" /\ wPc \in {"done", "raised"} /\ cPc = "done"

\* the wait returns and the with block is left: MicrophoneStream.__exit__
RunExit ==
    /\ pcRun = "running"
    /\ AllCompleted
    /\ pcRun' = "exited"
    /\ devState' = "stopped"
    /\ UNCHANGED <<conf, nframes, faulted, ready, in_buff, length, data, genPc,
                   audio_buff, wPc, wContent, text_queue, cPc, guiEvents, received,
                   stops, outHist, calls, atStop, faultSnap, taken, consumer, voice>>

\* self.finished.emit()
RunEmit ==
    /\ pcRun = "exited"
    /\ pcRun' = "emitted"
    /\ guiEvents' = Append(guiEvents, Finished)
    /\ UNCHANGED <<conf, devState, nframes, faulted, ready, in_buff, length, data,
                   genPc, audio_buff, wPc, wContent, text_queue, cPc, received,
                   stops, outHist, calls, atStop, faultSnap, taken, consumer, voice>>

\* asyncio.run closes the loop; callbacks still scheduled are never run
LoopClose ==
    /\ pcRun = "emitted"
    /\ pcRun' = "closed"
    /\ ready' = <<>>
    /\ UNCHANGED <<conf, devState, nframes, faulted, in_buff, length, data, genPc,
                   audio_buff, wPc, wContent, text_queue, cPc, guiEvents, received,
                   stops, outHist, calls, atStop, faultSnap, taken, consumer, voice>>

---------------------------------------------------------------------------
(* The consumer: the GUI thread handles the queued signals in order *)

GuiHandle ==
    /\ guiEvents # <<>>
    /\ received' = Append(received, Head(guiEvents))
    /\ guiEvents' = Tail(guiEvents)
    /\ UNCHANGED <<conf, devState, nframes, faulted, ready, in_buff, length, data,
                   genPc, audio_buff, wPc, wContent, text_queue, cPc, pcRun, stops,
                   outHist, calls, atStop, faultSnap, taken, consumer, voice>>

---------------------------------------------------------------------------
(* The pipeline of audio_transcribe.py *)

\* the state of a session with nothing recorded yet: constructed (run is
\* "created"), or just after _run has opened the stream and created its tasks
\* (run is "running")
Fresh(c, run) ==
    /\ conf = c
    /\ pcRun = run
    /\ devState = (IF run = "created" THEN "closed" ELSE "active")
    /\ genPc = (IF run = "created" THEN "idle" ELSE "waiting")
    /\ wPc = (IF run = "created" THEN "idle" ELSE "get")
    /\ cPc = (IF run = "created" THEN "idle" ELSE "waiting")
    /\ nframes = 0
    /\ faulted = FALSE
    /\ ready = <<>>
    /\ in_buff = <<>>
    /\ length = 0
    /\ data = <<>>
    /\ audio_buff = <<>>
    /\ wContent = NoBatch
    /\ text_queue = <<>>
    /\ guiEvents = <<>>
    /\ received = <<>>
    /\ stops = <<>>
    /\ outHist = <<>>
    /\ calls = <<>>
    /\ atStop = [set |-> FALSE, frames |-> {}]
    /\ faultSnap = [handed |-> {}, batches |-> 0, calls |-> 0, recording |-> FALSE]
    /\ taken = <<>>

\* the window after MainWindow.__init__ and _load_content: no thread, no
\* worker, the button enabled, the cursor at the end of the loaded content
\* MainWindow of mainwindow.py: the bounds of the font size, and the size
\* used when FONT_SIZE is not configured, not a number or out of range
MAX_FONT_SIZE == 30
MIN_FONT_SIZE == 10
DEFAULT_FONT_SIZE == 16

\* how far outside the range a configured font size lies
FontSlack == 3

\* config['FONT_SIZE']: not set, not the text of an integer, or an integer
UnsetFont == [kind |-> "unset", value |-> 0]
FontConfigs ==
    {UnsetFont, [kind |-> "invalid", value |-> 0]}
        \cup {[kind |-> "int", value |-> n] :
                  n \in (MIN_FONT_SIZE - FontSlack)..(MAX_FONT_SIZE + FontSlack)}

\* a _window_config that takes any integer as it is
InitialFontSizeUnchecked(cfg) ==
    IF cfg.kind = "int" THEN cfg.value ELSE DEFAULT_FONT_SIZE

\* _window_config: self.font_size
InitialFontSize(cfg) ==
    IF cfg.kind = "unset" THEN DEFAULT_FONT_SIZE
    ELSE IF cfg.kind = "invalid" THEN DEFAULT_FONT_SIZE
    ELSE IF cfg.value > MAX_FONT_SIZE \/ cfg.value < MIN_FONT_SIZE THEN DEFAULT_FONT_SIZE
    ELSE cfg.value

\* the window of mainwindow.py after __init__ with the font size cfg
VoiceIdle(cfg) ==
    /\ vRun = "none"
    /\ vStops = <<>>
    /\ vReady = <<>>
    /\ vEvents = <<>>
    /\ vDoc = <<UserText>>
    /\ vCursor = 1
    /\ vBtnEnabled = TRUE
    /\ vBtnDown = FALSE
    /\ font_config = cfg
    /\ font_size = InitialFontSize(cfg)
    /\ point_size = font_size

\* the window of mainWindow.py after __init__
MainIdle ==
    /\ recording = FALSE
    /\ worker = 0
    /\ thread = "none"
    /\ btnEnabled = TRUE
    /\ btnDown = FALSE
    /\ doc = <<UserText>>
    /\ cursor = 1
    /\ drained = <<>>

Idle == MainIdle /\ VoiceIdle(UnsetFont)

\* the session of an AudioTranscriber seen alone
Init == Fresh(SmallConf, "created") /\ Idle

\* the steps of the loop thread and of the worker thread
Pipeline ==
    \/ RunStart
    \/ LoopRun
    \/ Generate
    \/ Copier
    \/ WorkerGet
    \/ WorkerTimeout
    \/ \E o \in Outcomes : WorkerRecognize(o)
    \/ RunExit
    \/ RunEmit
    \/ LoopClose

Next ==
    \/ \E s \in Statuses, d \in Durations(conf) : FillBuffer(s, d)
    \/ Stop
    \/ Pipeline
    \/ GuiHandle

Spec == Init /\ [][Next]_vars

\* the loop thread and the worker thread keep running: a step of the pipeline
\* that stays possible is eventually taken, and client.recognize returns
FairSpec == Spec /\ WF_vars(Pipeline)

---------------------------------------------------------------------------
(* The window of mainWindow.py: the record button, the document of the       *)
(* editor, and the slots the signals of the worker and of its thread are     *)
(* delivered to. The document is a sequence of tokens and a cursor position  *)
(* counts the tokens before it.                                              *)

\* sessions the user records
MaxSessions == 2

\* QThread.finished, emitted when the thread's event loop has returned
ThreadFinished == [sig |-> "thread_finished", html |-> FALSE, batch |-> 0]

\* d with x inserted after its first p tokens
InsertAt(d, p, x) == SubSeq(d, 1, p) \o <<x>> \o SubSeq(d, p + 1, Len(d))

\* the to-finish tags of d
Tags(d) == {i \in DOMAIN d : d[i].kind = "tag"}

\* the spans of d that toHtml() writes as "<span style=...>...</span>": the
\* to-finish tags and the text the user has given a character format
Spans(d) == {i \in DOMAIN d : d[i].kind \in {"tag", "styled"}}

\* doc_html.index("<span style="): the first such span, 0 for ValueError
TagIndex(d) == IF Spans(d) = {} THEN 0 ELSE CHOOSE i \in Spans(d) : \A j \in Spans(d) : i <= j

\* the last "</span>" of the paragraph, where the greedy ".+" ends
TagEnd(d) == IF Spans(d) = {} THEN 0 ELSE CHOOSE i \in Spans(d) : \A j \in Spans(d) : j <= i

\* _write_back(text, html) on the document d with the cursor at c, for the
\* event e of worker w
WriteBack(d, c, rec, w, e) ==
    IF rec
      THEN [doc |-> InsertAt(d, c, IF e.html THEN PlainPlaceHolder
                                             ELSE TextToken(w, e.batch)),
            cursor |-> c + 1]
    ELSE IF e.html
      THEN [doc |-> InsertAt(d, c, TO_FINISH_PLACE_HOLDER), cursor |-> c + 1]
    ELSE IF TagIndex(d) # 0
      THEN [doc |-> InsertAt(d, TagIndex(d) - 1, TextToken(w, e.batch)),
            cursor |-> IF c > TagIndex(d) - 1 THEN c + 1 ELSE c]
    ELSE [doc |-> InsertAt(d, c, TextToken(w, e.batch)), cursor |-> c + 1]

\* a _cleanup_tags that removes nothing
CleanupTagsKept(d, c) == [doc |-> d, cursor |-> c]

\* _cleanup_tags(): the document without what lies from the first tag to the
\* end of the last, and the cursor, which setHtml has put at the beginning,
\* set back when the tag is found: by the length of one tag when it was
\* after the first tag, and no further than the end of what is left
CleanupTags(d, c) ==
    IF TagIndex(d) # 0
      THEN LET rest == SubSeq(d, 1, TagIndex(d) - 1) \o SubSeq(d, TagEnd(d) + 1, Len(d))
               back == IF c > TagIndex(d) - 1 THEN c - 1 ELSE c
           IN [doc |-> rest, cursor |-> IF back > Len(rest) THEN Len(rest) ELSE back]
      ELSE [doc |-> d, cursor |-> 0]

\* a stop_recording that leaves the button as it is
EnabledAfterStopKept == btnEnabled

\* a stop_recording that enables the button for the next press at once
EnabledAfterStopAtOnce == TRUE

\* record_btn.setEnabled(False) at the end of stop_recording
EnabledAfterStop == FALSE

\* start_recording(): a new thread and a new worker, whose session starts
\* from nothing
StartRecording ==
    /\ thread' = "started"
    /\ worker' = worker + 1
    /\ recording' = TRUE
    /\ pcRun' = "created"
    /\ devState' = "closed"
    /\ genPc' = "idle"
    /\ wPc' = "idle"
    /\ cPc' = "idle"
    /\ faulted' = FALSE
    /\ ready' = <<>>
    /\ in_buff' = <<>>
    /\ length' = 0
    /\ data' = <<>>
    /\ audio_buff' = <<>>
    /\ wContent' = NoBatch
    /\ text_queue' = <<>>
    /\ stops' = <<>>
    /\ outHist' = <<>>
    /\ calls' = <<>>
    /\ atStop' = [set |-> FALSE, frames |-> {}]
    /\ faultSnap' = [handed |-> {}, batches |-> 0, calls |-> 0, recording |-> FALSE]
    /\ taken' = <<>>
    /\ drained' = <<>>
    /\ UNCHANGED <<conf, nframes, guiEvents, received, btnEnabled, doc, cursor, voice>>

\* stop_recording(): worker.stop() when there is a worker, then the button is
\* disabled. An exception of worker.stop() leaves the slot before that, and
\* PyQt6 aborts the application for an exception a slot does not handle.
StopRecording ==
    /\ recording' = FALSE
    /\ IF worker = 0
         THEN /\ btnEnabled' = EnabledAfterStop
              /\ UNCHANGED <<stops, ready, thread>>
         ELSE /\ StopCall
              /\ IF StopOutcome = "scheduled"
                   THEN btnEnabled' = EnabledAfterStop /\ UNCHANGED thread
                   ELSE thread' = "aborted" /\ UNCHANGED btnEnabled
    /\ UNCHANGED <<conf, devState, nframes, faulted, in_buff, length, data, genPc,
                   audio_buff, wPc, wContent, text_queue, cPc, pcRun, guiEvents,
                   received, outHist, calls, atStop, faultSnap, taken, worker, doc,
                   cursor, drained, voice>>

\* the user presses the record button: pressed is connected to start_recording
Press ==
    /\ thread # "aborted"
    /\ btnEnabled
    /\ ~btnDown
    /\ worker < MaxSessions
    /\ btnDown' = TRUE
    /\ StartRecording

\* the user releases it: released is connected to stop_recording
Release ==
    /\ thread # "aborted"
    /\ btnDown
    /\ btnDown' = FALSE
    /\ StopRecording

\* the user puts the cursor somewhere else in the editor, which is shown
\* whenever the button is not held down
MoveCursor ==
    /\ thread # "aborted"
    /\ ~btnDown
    /\ \E p \in 0..Len(doc) : p # cursor /\ cursor' = p
    /\ UNCHANGED <<conf, devState, nframes, faulted, ready, in_buff, length, data,
                   genPc, audio_buff, wPc, wContent, text_queue, cPc, pcRun,
                   guiEvents, received, stops, outHist, calls, atStop, faultSnap,
                   taken, recording, worker, thread, btnEnabled, btnDown, doc,
                   drained, voice>>

\* the GUI thread delivers the oldest queued signal: progress to _write_back,
\* the worker's finished to thread.quit, the thread's finished to
\* _enable_recording
Deliver ==
    /\ thread # "aborted"
    /\ guiEvents # <<>>
    /\ guiEvents' = Tail(guiEvents)
    /\ LET e == Head(guiEvents)
       IN CASE e.sig = "progress" ->
                 /\ doc' = WriteBack(doc, cursor, recording, worker, e).doc
                 /\ cursor' = WriteBack(doc, cursor, recording, worker, e).cursor
                 /\ drained' = IF ~recording /\ ~e.html
                                 THEN Append(drained, e.batch) ELSE drained
                 /\ UNCHANGED <<thread, btnEnabled>>
            [] e.sig = "finished" ->
                 /\ thread' = "quit"
                 /\ UNCHANGED <<doc, cursor, btnEnabled, drained>>
            [] e.sig = "thread_finished" ->
                 /\ doc' = CleanupTags(doc, cursor).doc
                 /\ cursor' = CleanupTags(doc, cursor).cursor
                 /\ btnEnabled' = TRUE
                 /\ UNCHANGED <<thread, drained>>
    /\ UNCHANGED <<conf, devState, nframes, faulted, ready, in_buff, length, data,
                   genPc, audio_buff, wPc, wContent, text_queue, cPc, pcRun, received,
                   stops, outHist, calls, atStop, faultSnap, taken, recording, worker,
                   btnDown, voice>>

\* the thread's event loop returns, once quit() was called and worker.run has
\* returned, and the thread emits finished
ThreadFinish ==
    /\ thread = "quit"
    /\ pcRun = "closed"
    /\ thread' = "finished"
    /\ guiEvents' = Append(guiEvents, ThreadFinished)
    /\ UNCHANGED <<conf, devState, nframes, faulted, ready, in_buff, length, data,
                   genPc, audio_buff, wPc, wContent, text_queue, cPc, pcRun, received,
                   stops, outHist, calls, atStop, faultSnap, taken, recording, worker,
                   btnEnabled, btnDown, doc, cursor, drained, voice>>

\* the worker's thread runs worker.run
Session ==
    /\ thread \in {"started", "quit"}
    /\ Pipeline

\* the device thread of the session
Device == \E s \in Statuses, d \in Durations(conf) : FillBuffer(s, d)

ConsumerNext ==
    \/ Press
    \/ Release
    \/ MoveCursor
    \/ Deliver
    \/ ThreadFinish
    \/ Session
    \/ Device

ConsumerSpec == Init /\ [][ConsumerNext]_vars

\* no worker was created yet, or the session of the worker has finished
NoActiveSession == worker = 0 \/ pcRun = "closed"

\* stop_recording() called as a slot while no session is active: the button
\* itself emits released only after pressed
StopRecordingSlot ==
    /\ thread # "aborted"
    /\ ~btnDown
    /\ NoActiveSession
    /\ StopRecording
    /\ UNCHANGED btnDown

\* the window with its slot stop_recording open to a caller without a session
SlotNext ==
    \/ ConsumerNext
    \/ StopRecordingSlot

SlotSpec == Init /\ [][SlotNext]_vars

---------------------------------------------------------------------------
(* The batchers alone, with the constants of the two modules: generate() of  *)
(* audio_transcribe.py and collect() of transcriber.py, each fed validated   *)
(* frames and then the sentinel. A flush resets the accumulator to its       *)
(* initial value, so one batch cycle is followed: frames are fed until the   *)
(* first put.                                                                *)

BatcherInit == (\E c \in {GenerateConf, CollectConf} : Fresh(c, "running")) /\ Idle

\* a callback with a normal status and an accepted duration, taken by the batcher
BatcherFrame(d) ==
    /\ genPc = "waiting"
    /\ outHist = <<>>
    /\ nframes < MaxFullFrames
    /\ Valid(conf, d)
    /\ nframes' = nframes + 1
    /\ BatcherApply(Frame(nframes + 1, d))
    /\ UNCHANGED <<conf, devState, faulted, ready, in_buff, wPc, wContent,
                   text_queue, cPc, pcRun, guiEvents, received, stops, calls,
                   atStop, faultSnap, consumer, voice>>

\* the sentinel, taken by the batcher
BatcherEnd ==
    /\ genPc = "waiting"
    /\ BatcherApply(NoFrame)
    /\ UNCHANGED <<conf, devState, nframes, faulted, ready, in_buff, wPc, wContent,
                   text_queue, cPc, pcRun, guiEvents, received, stops, calls,
                   atStop, faultSnap, consumer, voice>>

BatcherNext ==
    \/ \E d \in Durations(conf) : BatcherFrame(d)
    \/ BatcherEnd

BatcherSpec == BatcherInit /\ [][BatcherNext]_vars

---------------------------------------------------------------------------
(* The batchers fed frames of one duration d, with a cap of 3d: generate()   *)
(* and collect() with CHUNK_DURATION = d, and generate() with                *)
(* 2 x CHUNK_DURATION = d. Two sample periods make a second.                 *)

EqualConfs ==
    {[rate |-> 2, chunk |-> k[1] * d, cap |-> 3 * d, variant |-> k[2]] :
        d \in 1..MaxSeconds,
        k \in {<<2, "generate">>, <<2, "collect">>, <<1, "generate">>}}

\* the duration of each frame: a third of the cap
EqualDuration(c) == Cap(c) \div 3

\* the room under the cap at which the batcher flushes
Margin(c) == IF c.variant = "generate" THEN ChunkDuration(c) * 2 ELSE ChunkDuration(c)

EqualInit == (\E c \in EqualConfs : Fresh(c, "running")) /\ Idle

\* a callback with a normal status and the duration d, taken by the batcher
EqualFrame ==
    /\ genPc = "waiting"
    /\ nframes < MaxEqualFrames
    /\ Valid(conf, EqualDuration(conf))
    /\ nframes' = nframes + 1
    /\ BatcherApply(Frame(nframes + 1, EqualDuration(conf)))
    /\ UNCHANGED <<conf, devState, faulted, ready, in_buff, wPc, wContent, text_queue,
                   cPc, pcRun, guiEvents, received, stops, calls, atStop, faultSnap,
                   consumer, voice>>

EqualNext ==
    \/ EqualFrame
    \/ BatcherEnd

EqualSpec == EqualInit /\ [][EqualNext]_vars

---------------------------------------------------------------------------
(* The cap *)

\* C1: every batch put on the batch queue, flushed or final remainder, has an
\* accumulated duration strictly less than MAX_LENGTH_PER_REQUEST.
C1_CapInvariant == \A i \in Batches : outHist[i].duration < Cap(conf)

---------------------------------------------------------------------------
(* The signals of the session, as the consumer gets them *)

\* every signal emitted so far, in emission order
Emitted == received \o guiEvents

IsText(e) == e.sig = "progress" /\ ~e.html
IsMarker(e) == e.sig = "progress" /\ e.html
IsFinished(e) == e.sig = "finished"

Count(s, P(_)) == Cardinality({i \in DOMAIN s : P(s[i])})

\* self.finished.emit() has run
FinishedEmitted == pcRun \in {"emitted", "closed"}

\* stop() has taken effect: its cleanup has put the sentinel on the hand-off queue
StopEffective == atStop.set

\* C2: the progress(text, False) events the consumer receives are in the
\* order of the batches they transcribe.
C2_OrderPreserved ==
    LET T == SelectSeq(received, IsText)
    IN \A i, j \in DOMAIN T : i < j => T[i].batch < T[j].batch

\* two texts, of two batches, have been received
C2_Witness == Count(received, IsText) >= 2

\* places (batch, position) at which the audio of frame f was put on the batch queue
Places(f) ==
    {p \in UNION {{<<i, k>> : k \in DOMAIN outHist[i].data} : i \in Batches} :
        outHist[p[1]].data[p[2]] = f}

\* C3: when finished is emitted, every frame that was handed off and not yet
\* flushed when stop() took effect is in exactly one batch put on the batch
\* queue, once.
C3_NoLossOnStop ==
    (FinishedEmitted /\ StopEffective) =>
        \A f \in atStop.frames : Cardinality(Places(f)) = 1

\* finished is emitted after a stop() that found two frames unflushed
C3_Witness == FinishedEmitted /\ Cardinality(atStop.frames) = 2

Resolved(i) ==
    \E k \in DOMAIN calls :
        /\ calls[k].batch = outHist[i].no
        /\ \/ calls[k].outcome \in {"noresult", "emptystr", "raise"}
           \/ /\ calls[k].outcome = "text"
              /\ \E n \in DOMAIN Emitted :
                     IsText(Emitted[n]) /\ Emitted[n].batch = outHist[i].no

\* C5: whenever finished is emitted, every batch put on the batch queue has
\* produced a terminal outcome.
C5_FinishedAfterAllResolved == FinishedEmitted => \A i \in Batches : Resolved(i)

\* C6: stop() called twice emits one pending marker, as stop() called once,
\* and a stop() on a draining or finished session raises nothing.
C6_IdempotentStop ==
    /\ Count(Emitted, IsMarker) <= 1
    /\ \A i \in DOMAIN stops : stops[i] # "RuntimeError"

\* C7: when the call on a batch raises, every batch put after it is still
\* submitted to a recognition call before finished.
C7_FailureDoesNotBlockLater ==
    FinishedEmitted =>
        \A k \in DOMAIN calls : calls[k].outcome = "raise" =>
            \A i \in Batches : outHist[i].no > calls[k].batch =>
                \E m \in DOMAIN calls : calls[m].batch = outHist[i].no

\* C8: when the call on a batch raises, an error event for that batch is
\* emitted to the consumer before finished.
C8_ErrorEventDelivered ==
    FinishedEmitted =>
        \A k \in DOMAIN calls : calls[k].outcome = "raise" =>
            \E n \in DOMAIN Emitted :
                Emitted[n].sig = "error" /\ Emitted[n].batch = calls[k].batch

\* C9: after a device fault during recording the session fails: finished is
\* not emitted, and the consumer gets a fatal error signal.
C9_DeviceFaultFailsSession ==
    (faulted /\ faultSnap.recording) =>
        /\ ~FinishedEmitted
        /\ pcRun = "closed" => \E n \in DOMAIN Emitted : Emitted[n].sig = "fatal"

\* C10: after a device fault no further frame is handed off, no further
\* batch is put on the batch queue and no further recognition call starts.
C10_NothingAfterFault ==
    faulted =>
        /\ Handed = faultSnap.handed
        /\ Cardinality(Batches) = faultSnap.batches
        /\ Len(calls) = faultSnap.calls

---------------------------------------------------------------------------
(* The device callback and the batcher *)

\* the frames scheduled for the hand-off queue or on it
Queued ==
    {ready[i].item : i \in {j \in DOMAIN ready : ready[j].cb = "in_put"}}
      \cup {in_buff[i] : i \in {j \in DOMAIN in_buff : in_buff[j] # NoFrame}}

\* n frames of accepted durations add up to len
Plausible(n, len) == n <= len /\ len <= 3 * ChunkDuration(conf) * n

\* C16: a callback with a normal status drops a frame whose duration is <= 0
\* or > 3 x CHUNK_DURATION and the stream stays active for the next callback;
\* it hands off a frame whose duration is in (0, 3 x CHUNK_DURATION]. No
\* frame of a rejected duration is on the hand-off queue or in a batch.
C16_InvalidDropped ==
    /\ [](\A f \in Queued : 0 < f.duration /\ f.duration <= 3 * ChunkDuration(conf))
    /\ [](/\ Plausible(Len(data), length)
          /\ \A i \in Batches : Plausible(Len(outHist[i].data), outHist[i].duration))
    /\ [][\A s \in Statuses \ {"paInputUnderflow", "paInputOverflow"},
             d \in Durations(conf) :
             FillBuffer(s, d) =>
                 IF 0 < d /\ d <= 3 * ChunkDuration(conf)
                   THEN ready' = Append(ready, InPut(Frame(nframes', d)))
                   ELSE ready' = ready /\ devState' = "active"]_vars

\* the first callback was dropped for its duration and the second, of duration
\* 3 x CHUNK_DURATION, is handed off
C16_Witness ==
    /\ nframes = 2
    /\ ~faulted
    /\ \A f \in Queued : f.id = 2 /\ f.duration = 3 * ChunkDuration(conf)
    /\ Queued # {}
    /\ Handed = {2}

\* C17: every batch put on the batch queue holds at least one frame and a
\* positive duration; a stream that ends with no frame taken puts None alone,
\* and an end of input that follows a flush puts None alone after the batch.
C17_NoEmptyBatch ==
    /\ \A i \in Batches : outHist[i].data # <<>> /\ outHist[i].duration > 0
    /\ (genPc = "done" /\ taken = <<>>) => outHist = <<NoBatch>>
    /\ (genPc = "done" /\ length = 0) => Len(outHist) <= 2

\* the end of input follows a flush: one batch, an empty accumulator
C17_Witness == genPc = "done" /\ length = 0 /\ Cardinality(Batches) = 1

\* batch i is the remainder put by the finally block (which leaves length as
\* it is), not a batch flushed by the loop
IsRemainder(i) == genPc = "done" /\ length > 0 /\ i = Len(outHist) - 1

\* C19: in audio_transcribe.py the accumulator is flushed as soon as, and not
\* before, the room left under the cap is less than 2 x CHUNK_DURATION: an
\* accumulator not flushed leaves at least that room, every batch flushed by
\* the loop is longer than the cap minus 2 x CHUNK_DURATION, and after a
\* flush the accumulator is empty with length 0.
C19_FlushAtMargin ==
    conf.variant = "generate" =>
        /\ genPc = "waiting" => length <= Cap(conf) - 2 * ChunkDuration(conf)
        /\ \A i \in Batches :
               ~IsRemainder(i) =>
                   outHist[i].duration > Cap(conf) - 2 * ChunkDuration(conf)
        /\ (genPc = "waiting" /\ outHist # <<>>) => length = 0 /\ data = <<>>

\* generate() has flushed a batch and waits for the next frame
C19_Witness ==
    conf.variant = "generate" /\ genPc = "waiting" /\ Cardinality(Batches) = 1

\* the audio of the batches put on the batch queue, concatenated in queue order
RECURSIVE Concatenated(_)
Concatenated(q) ==
    IF q = <<>> THEN <<>> ELSE Head(q).data \o Concatenated(Tail(q))

\* C20: the batches put on the batch queue, concatenated in queue order, are
\* the frames generate() has taken from the hand-off queue, in the order it
\* took them, which is the order the callbacks handed them off; while
\* generate() runs, the accumulator holds the frames not yet put, and the
\* frames still queued were all handed off after the frames taken.
C20_Concatenation ==
    /\ genPc = "done" => Concatenated(outHist) = taken
    /\ genPc # "done" => Concatenated(outHist) \o data = taken
    /\ \A i, j \in DOMAIN taken : i < j => taken[i] < taken[j]
    /\ \A f \in Queued : \A i \in DOMAIN taken : taken[i] < f.id

\* the stream has ended with two frames in two batches
C20_Witness == genPc = "done" /\ Cardinality(Batches) = 2 /\ Len(taken) = 2

---------------------------------------------------------------------------
(* Equal frames under a cap of three frames *)

\* each frame lasts one CHUNK_DURATION
NominalFrames == ChunkDuration(conf) = EqualDuration(conf)

\* the batcher's margin is the duration of one frame
MarginOneFrame == Margin(conf) = EqualDuration(conf)

\* the loop flushes after every k-th frame: the batches it has put hold k
\* frames each, and the accumulator the frames since the last multiple of k
FlushEvery(k) ==
    /\ \A i \in Batches :
           ~IsRemainder(i) =>
               /\ outHist[i].data = [n \in 1..k |-> k * (i - 1) + n]
               /\ outHist[i].duration = k * EqualDuration(conf)
    /\ genPc = "waiting" =>
           /\ Len(outHist) = nframes \div k
           /\ data = [n \in 1..(nframes % k) |-> k * (nframes \div k) + n]

\* cap 15, frames of 5, three frames and the end of input: 10 then 5
TenThenFive ==
    (conf.cap = 15 /\ nframes = 3 /\ genPc = "done") =>
        outHist = <<Batch(1, <<1, 2>>, 10 * conf.rate),
                    Batch(2, <<3>>, 5 * conf.rate), NoBatch>>

---------------------------------------------------------------------------
(* Termination *)

\* a stop() call has scheduled its cleanup on the loop of a running session
StopScheduled == \E i \in DOMAIN stops : stops[i] = "scheduled"

\* no call of client.recognize has raised
RecognizeReturns == \A k \in DOMAIN calls : calls[k].outcome # "raise"

\* C14: when every recognition call returns and the threads are scheduled
\* fairly, a stop() on a running session leads to generate() having put its
\* remainder and returned, the worker having taken every item of the batch
\* queue, and finished emitted.
C14_StopTerminates ==
    []RecognizeReturns =>
        (StopScheduled ~>
            (genPc = "done" /\ audio_buff = <<>> /\ FinishedEmitted))

---------------------------------------------------------------------------
(* The document while a session drains *)

\* _enable_recording has handled the finished signal of the worker's thread
FinishedHandled ==
    thread = "finished" /\ \A i \in DOMAIN guiEvents : guiEvents[i].sig # "thread_finished"

\* stop_recording() has stopped the worker and the finished signal of its
\* thread is not handled yet
Draining == StopScheduled /\ ~FinishedHandled

\* C11: the document holds at most one to-finish tag, and holds one only
\* between stop_recording() and the handling of the thread's finished signal.
C11_OneMarker ==
    /\ Cardinality(Tags(doc)) <= 1
    /\ Tags(doc) # {} => Draining

\* the tag of the second session is in the document, after that of the first
\* was removed
C11_Witness == Tags(doc) # {} /\ worker = 2

\* C12: start_recording() creates no worker between stop_recording() and the
\* handling of the thread's finished signal, nor while a to-finish tag is in
\* the document.
C12_NoStartWhileDraining ==
    [][worker' # worker => ~Draining /\ Tags(doc) = {}]_vars

\* a second session is recording, the first has finished
C12_Witness == worker = 2 /\ recording /\ pcRun = "running"

\* C13: a text event that _write_back handles while the session drains is
\* inserted just before the to-finish tag, which is in the document before
\* and after, wherever the cursor is.
C13_InsertedAtMarker ==
    [][(Deliver /\ IsText(Head(guiEvents)) /\ Draining) =>
          /\ TagIndex(doc) # 0
          /\ doc' = InsertAt(doc, TagIndex(doc) - 1,
                             TextToken(worker, Head(guiEvents).batch))
          /\ Tags(doc') # {}]_vars

---------------------------------------------------------------------------
(* A stop request without a session *)

\* C15: stop_recording() with no active session raises to its caller and
\* leaves the button's enabled state and the recording flag as they were.
C15_StopRejected ==
    [][((StopRecordingSlot \/ Release) /\ NoActiveSession) =>
          /\ btnEnabled' = btnEnabled
          /\ recording' = recording
          /\ Len(stops') = Len(stops) + 1
          /\ stops'[Len(stops')] # "scheduled"]_vars

---------------------------------------------------------------------------
(* The end of input *)

\* C21: no frame is put on the hand-off queue behind the sentinel: once
\* stop() has put None on _in_buff, whatever follows it on the queue is
\* another None, and nothing but None is left once generate() has taken it.
C21_NoFrameAfterSentinel ==
    /\ \A i, j \in DOMAIN in_buff :
           (i < j /\ in_buff[i] = NoFrame) => in_buff[j] = NoFrame
    /\ genPc = "done" => \A i \in DOMAIN in_buff : in_buff[i] = NoFrame

\* the None items put on the batch queue so far
Sentinels == {i \in DOMAIN outHist : outHist[i].none}

\* C22: generate() puts None on the batch queue once, when it returns, as the
\* last item it ever puts, just after the remainder if the accumulator holds
\* one, however many times stop() was called.
C22_SentinelLast ==
    /\ Cardinality(Sentinels) <= 1
    /\ genPc = "done" <=> Sentinels # {}
    /\ Sentinels \subseteq {Len(outHist)}
    /\ (genPc = "done" /\ length > 0) =>
           /\ Len(outHist) >= 2
           /\ outHist[Len(outHist) - 1].data = data
           /\ outHist[Len(outHist) - 1].duration = length

\* two stop() calls have put two sentinels on the hand-off queue, and
\* generate() has returned at the first, after putting a remainder
C22_Witness ==
    /\ genPc = "done"
    /\ length > 0
    /\ in_buff # <<>>
    /\ Head(in_buff) = NoFrame
    /\ Cardinality({i \in DOMAIN stops : stops[i] = "scheduled"}) = 2


\* the None items the worker has handed to _callback and the copier has not
\* taken yet
WorkerSentinels ==
    Cardinality({i \in DOMAIN ready : ready[i].cb = "text_put" /\ ready[i].text.none})
        + Cardinality({i \in DOMAIN text_queue : text_queue[i].none})

\* the worker has left _transcribe
WorkerExited == wPc \in {"done", "raised"}

\* C23: the worker hands None to _callback once, and only when it leaves;
\* it leaves only in a stopped session, at the None of generate(), with a
\* finished recognition call for every batch put before it.
C23_WorkerSentinelLast ==
    /\ WorkerSentinels <= 1
    /\ ~WorkerExited => WorkerSentinels = 0
    /\ WorkerExited =>
           /\ StopEffective
           /\ wPc = "done"
           /\ \A i \in Batches :
                  \E k \in DOMAIN calls :
                      calls[k].batch = outHist[i].no /\ calls[k].outcome # "pending"

\* C24: each batch put on the batch queue is submitted to one recognition
\* call at most, and when finished is emitted each has been submitted to one
\* and none waits on the queue.
C24_EachBatchOneCall ==
    /\ \A k, m \in DOMAIN calls : calls[k].batch = calls[m].batch => k = m
    /\ \A k \in DOMAIN calls : \E i \in Batches : outHist[i].no = calls[k].batch
    /\ FinishedEmitted =>
           /\ \A i \in Batches : \E k \in DOMAIN calls : calls[k].batch = outHist[i].no
           /\ \A n \in DOMAIN audio_buff : audio_buff[n].none


\* the batches whose recognition call returned no result or no alternative
NoResultBatches ==
    {calls[k].batch : k \in {n \in DOMAIN calls : calls[n].outcome = "noresult"}}

\* C25: a response without results or alternatives hands nothing to
\* _callback, so no text and no error is ever emitted for its batch, and the
\* worker goes back to audio_buff.get() for the next batch.
C25_NoResultSkipped ==
    /\ [](\A b \in NoResultBatches :
              /\ \A i \in DOMAIN ready :
                     ready[i].cb = "text_put" => ready[i].text.batch # b
              /\ \A i \in DOMAIN text_queue : text_queue[i].batch # b
              /\ \A n \in DOMAIN Emitted :
                     Emitted[n].sig \in {"progress", "error"} /\ ~Emitted[n].html
                         => Emitted[n].batch # b)
    /\ [][(wPc = "recognize" /\ calls' # calls
             /\ calls'[Len(calls')].outcome = "noresult")
          => (wPc' = "get" /\ ready' = ready
                /\ text_queue' = text_queue /\ guiEvents' = guiEvents)]_vars

\* the call on batch 1 returned nothing; batch 2 was recognized after it, its
\* text reached the consumer and the session finished
C25_Witness ==
    /\ Len(calls) = 2
    /\ calls[1].outcome = "noresult"
    /\ calls[2].outcome = "text"
    /\ \E n \in DOMAIN received :
           IsText(received[n]) /\ received[n].batch = calls[2].batch
    /\ Count(received, IsFinished) = 1
    /\ wPc = "done"


\* C26: each transcript handed to _callback, the empty one included, is taken
\* by the copier, which ends at the worker's None only: when finished is
\* emitted no transcript waits in the delivery path, and each non-empty one
\* was emitted once.
C26_EveryTranscriptDelivered ==
    /\ cPc = "done" => WorkerExited
    /\ \A k \in DOMAIN calls : calls[k].outcome = "text" =>
           Cardinality({n \in DOMAIN Emitted :
                           IsText(Emitted[n]) /\ Emitted[n].batch = calls[k].batch}) <= 1
    /\ FinishedEmitted =>
           /\ \A i \in DOMAIN text_queue : text_queue[i].none
           /\ \A k \in DOMAIN calls : calls[k].outcome = "text" =>
                  \E n \in DOMAIN Emitted :
                      IsText(Emitted[n]) /\ Emitted[n].batch = calls[k].batch


\* the worker is inside `with speech.SpeechClient() as client`
ClientOpen == wPc \in {"get", "recognize"}

\* the PortAudio stream is open: __enter__ has run and __exit__ has not
DeviceOpen == devState \in {"active", "aborted"}

\* C27: once _run has left `with self.stream`, and so whenever finished is
\* emitted or about to be, the device stream is stopped and closed and the
\* worker has left its SpeechClient block.
C27_ClosedBeforeFinished ==
    pcRun \in {"exited", "emitted", "closed"} => ~DeviceOpen /\ ~ClientOpen

\* a stopped session whose worker took the None of generate() and whose
\* finished signal was emitted with the device stopped
C27_Witness ==
    /\ pcRun = "emitted"
    /\ StopEffective
    /\ wPc = "done"
    /\ calls # <<>>
    /\ devState = "stopped"


\* C28: while the stream is active a callback can run to its end for any
\* status and any frame, whatever waits on the queues and whether or not a
\* recognition call is in flight; it leaves the queues alone and schedules at
\* most one put for the loop.
C28_CallbackNeverBlocks ==
    /\ []((devState = "active" /\ nframes < MaxFrames) =>
              \A s \in Statuses, d \in Durations(conf) : ENABLED FillBuffer(s, d))
    /\ [][nframes' # nframes =>
              /\ <<in_buff, audio_buff, text_queue>>' = <<in_buff, audio_buff, text_queue>>
              /\ \/ ready' = ready
                 \/ \E d \in Durations(conf) :
                        ready' = Append(ready, InPut(Frame(nframes', d)))]_vars

\* a callback has handed off a frame, whose batch is in a recognition call in
\* flight; an item waits on the hand-off queue and the next callback can run
C28_Witness ==
    /\ devState = "active"
    /\ 0 < nframes
    /\ nframes < MaxFrames
    /\ wPc = "recognize"
    /\ in_buff # <<>>
    /\ \A s \in Statuses, d \in Durations(conf) : ENABLED FillBuffer(s, d)


\* C29: generate() runs on the loop and client.recognize on the worker
\* thread: with an item on the hand-off queue generate() can take it in every
\* state, a call in flight included, and every batch put after the one in
\* the call waits on the batch queue.
C29_BatcherNotBlocked ==
    /\ (pcRun = "running" /\ genPc = "waiting" /\ in_buff # <<>>) => ENABLED Generate
    /\ wPc = "recognize" =>
           \A i \in Batches : outHist[i].no > wContent.no =>
               \E n \in DOMAIN audio_buff : audio_buff[n] = outHist[i]

\* the call on batch 1 is in flight, batch 2 waits behind it and generate()
\* can take the next item of the hand-off queue
C29_Witness ==
    /\ wPc = "recognize"
    /\ wContent.no = 1
    /\ \E n \in DOMAIN audio_buff : ~audio_buff[n].none /\ audio_buff[n].no = 2
    /\ genPc = "waiting"
    /\ in_buff # <<>>
    /\ ENABLED Generate


\* a capacity below the number of frames of a run
Capacity == MaxFrames - 1

\* C30: the items waiting on the hand-off queue, on the batch queue and on
\* the text queue never exceed a capacity fixed below the length of the run.
C30_QueuesBounded ==
    /\ Len(in_buff) <= Capacity
    /\ Len(audio_buff) <= Capacity
    /\ Len(text_queue) <= Capacity

---------------------------------------------------------------------------
(* The to-finish tag from stop() to the end of the session *)

\* the step emits the signal e to the GUI thread
Emits(e) == guiEvents' = Append(guiEvents, e)

\* C31: the cleanup of stop() emits the to-finish tag in the step that puts
\* None on the hand-off queue, before it; finished and each text of the
\* remainder batch are emitted after that step; and _write_back handles the
\* tag by inserting it where the cursor is, as the only tag of the document.
C31_MarkerFirst ==
    /\ [][(in_buff' # in_buff /\ Len(in_buff') > Len(in_buff)
             /\ in_buff'[Len(in_buff')] = NoFrame)
          => Emits(ProgressMarker)]_vars
    /\ [][Emits(Finished) => atStop.set]_vars
    /\ [][\A i \in Batches :
              (IsRemainder(i) /\ Emits(ProgressText(Text(outHist[i].no, FALSE))))
                  => atStop.set]_vars
    /\ [][(Deliver /\ IsMarker(Head(guiEvents))) =>
              /\ doc' = InsertAt(doc, cursor, TO_FINISH_PLACE_HOLDER)
              /\ Cardinality(Tags(doc')) = 1]_vars

\* the tag is in the document and the text of the remainder batch, emitted
\* after it, was inserted before it
C31_Witness ==
    /\ Tags(doc) # {}
    /\ \E i \in Batches :
           /\ IsRemainder(i)
           /\ \E p \in DOMAIN doc :
                  /\ doc[p] = TextToken(worker, outHist[i].no)
                  /\ p < TagIndex(doc)


\* the calls whose transcript the copier emits: those that returned a text
\* before any call returned the empty transcript, at which the copier ends
EmittedCalls ==
    {k \in DOMAIN calls :
        /\ calls[k].outcome = "text"
        /\ \A m \in 1..k : calls[m].outcome # "emptystr"}

\* C32: the to-finish tag leaves the document in _enable_recording and in no
\* other step; when the thread's finished signal is handled no text event
\* is left to handle and every text event of the session has its text in the
\* document; from then on the document holds no tag and the button is enabled.
C32_RemovedAtFinished ==
    /\ [][(Tags(doc) # {} /\ Tags(doc') = {}) =>
              (Deliver /\ Head(guiEvents).sig = "thread_finished")]_vars
    /\ [][(Deliver /\ Head(guiEvents).sig = "thread_finished") =>
              /\ \A i \in DOMAIN guiEvents : guiEvents[i].sig # "progress"
              /\ \A k \in EmittedCalls :
                     \E p \in DOMAIN doc : doc[p] = TextToken(worker, calls[k].batch)
              /\ doc' = CleanupTags(doc, cursor).doc]_vars
    /\ [](FinishedHandled =>
              /\ Tags(doc) = {}
              /\ btnEnabled
              /\ \A i \in DOMAIN guiEvents : guiEvents[i].sig # "progress"
              /\ \A k \in EmittedCalls :
                     \E p \in DOMAIN doc : doc[p] = TextToken(worker, calls[k].batch))

\* a session of two texts has finished: both are in the document, in order,
\* the tag is gone and the button is enabled
C32_Witness ==
    /\ FinishedHandled
    /\ Cardinality(EmittedCalls) = 2
    /\ Tags(doc) = {}
    /\ btnEnabled
    /\ \E p, q \in DOMAIN doc :
           /\ p < q
           /\ doc[p] = TextToken(worker, calls[1].batch)
           /\ doc[q] = TextToken(worker, calls[2].batch)

---------------------------------------------------------------------------
(* One session at a time *)

\* the session of the current worker is over: its loop is closed, its device
\* stream and its client are closed and _enable_recording has run
SessionOver ==
    /\ pcRun = "closed"
    /\ ~DeviceOpen
    /\ ~ClientOpen
    /\ FinishedHandled

\* C34: start_recording() creates a worker only when there is none yet or
\* the session of the one before is over, whatever the order of the presses,
\* the releases and the completion of the thread.
C34_OneSession ==
    [][worker' # worker => (worker = 0 \/ SessionOver)]_vars

\* the second session has its device stream open, after the first was closed
C34_Witness == worker = 2 /\ DeviceOpen /\ ~recording

\* C35: each stop() that stop_recording() makes on its worker schedules the
\* cleanup on the worker's loop, whenever it comes after start_recording(),
\* and leaves the application running.
C35_StopTakesEffect ==
    /\ \A i \in DOMAIN stops : stops[i] = "scheduled"
    /\ thread # "aborted"

---------------------------------------------------------------------------
(* _cleanup_tags on the documents of the editor *)

\* tokens of the longest document _cleanup_tags is applied to
MaxDocLen == 4

\* the documents: the user's plain and styled text, with one to-finish tag
\* at most
Documents ==
    LET Pieces == {UserText, StyledText(1), StyledText(2), TO_FINISH_PLACE_HOLDER}
        Seqs == UNION {[1..n -> Pieces] : n \in 1..MaxDocLen}
    IN {d \in Seqs : Cardinality(Tags(d)) <= 1}

\* a window with no session, any document and the cursor anywhere in it
TagsInit ==
    /\ Fresh(SmallConf, "created")
    /\ recording = FALSE
    /\ worker = 0
    /\ thread = "none"
    /\ btnEnabled = TRUE
    /\ btnDown = FALSE
    /\ doc \in Documents
    /\ cursor \in 0..Len(doc)
    /\ drained = <<>>
    /\ VoiceIdle(UnsetFont)

\* _cleanup_tags() runs on the document
CleanupStep ==
    /\ doc' = CleanupTags(doc, cursor).doc
    /\ cursor' = CleanupTags(doc, cursor).cursor
    /\ UNCHANGED <<conf, devState, nframes, faulted, ready, in_buff, length, data,
                   genPc, audio_buff, wPc, wContent, text_queue, cPc, pcRun,
                   guiEvents, received, stops, outHist, calls, atStop, faultSnap,
                   taken, recording, worker, thread, btnEnabled, btnDown, drained,
                   voice>>

TagsNext == CleanupStep

TagsSpec == TagsInit /\ [][TagsNext]_vars

\* d without its to-finish tags
WithoutTags(d) == SelectSeq(d, LAMBDA t : t.kind # "tag")

\* C36: _cleanup_tags() on a document that holds the to-finish tag leaves the
\* document as it was but for the tag: every other token, styled or not,
\* stays, in the same order.
C36_OnlyTagRemoved == [][Tags(doc) # {} => doc' = WithoutTags(doc)]_vars

---------------------------------------------------------------------------
(* The texts handled while a session drains *)

\* the tokens of the text events handled since stop_recording(), in the
\* order of their handling
DrainedTokens == [i \in DOMAIN drained |-> TextToken(worker, drained[i])]

\* C37: the texts _write_back has handled since stop_recording() stand in
\* the document in the order of their handling, one after the other, the
\* last of them just before the to-finish tag; and handling one adds its
\* token to the document and changes nothing else of it.
C37_InOrderBeforeMarker ==
    /\ []((Draining /\ drained # <<>>) =>
              /\ Tags(doc) # {}
              /\ TagIndex(doc) > Len(drained)
              /\ SubSeq(doc, TagIndex(doc) - Len(drained), TagIndex(doc) - 1)
                     = DrainedTokens)
    /\ [][(Deliver /\ IsText(Head(guiEvents)) /\ Draining) =>
              \E p \in 0..Len(doc) :
                  doc' = InsertAt(doc, p, TextToken(worker, Head(guiEvents).batch))]_vars

---------------------------------------------------------------------------
(* The window of mainwindow.py, which voice_notebook.py shows, with the      *)
(* AudioTranscriber of transcriber.py as its worker.                         *)

\* the variables of the session of audio_transcribe.py
pipeline == <<conf, devState, nframes, faulted, ready, in_buff, length, data, genPc,
              audio_buff, wPc, wContent, text_queue, cPc, pcRun, guiEvents,
              received, stops, outHist, calls, atStop, faultSnap, taken>>

\* what mainwindow.py leaves alone
others == <<pipeline, consumer>>

\* start_recording(): a new thread and a new worker; the thread is started
\* and will call worker.run
VoiceStartRecording ==
    /\ vRun' = "created"
    /\ vStops' = <<>>
    /\ vReady' = <<>>
    /\ UNCHANGED <<vEvents, vDoc, vCursor, vBtnEnabled, font_config, font_size, point_size>>

\* transcriber.py's stop(): self.loop is assigned by _run and closed by
\* asyncio.run when _run has ended
VoiceStopOutcome ==
    IF vRun = "created" THEN "AttributeError"
    ELSE IF vRun = "closed" THEN "RuntimeError"
    ELSE "scheduled"

\* stop_recording(): worker.stop(), then the button is disabled; an exception
\* of stop() leaves the slot and the application aborts
VoiceStopRecording ==
    /\ vStops' = Append(vStops, VoiceStopOutcome)
    /\ IF VoiceStopOutcome = "scheduled"
         THEN /\ vReady' = Append(vReady, Cleanup)
              /\ vBtnEnabled' = FALSE
              /\ UNCHANGED vRun
         ELSE /\ vRun' = "aborted"
              /\ UNCHANGED <<vReady, vBtnEnabled>>
    /\ UNCHANGED <<vEvents, vDoc, vCursor, font_config, font_size, point_size>>

\* the user presses the record button
VoicePress ==
    /\ vRun # "aborted"
    /\ vBtnEnabled
    /\ ~vBtnDown
    /\ vBtnDown' = TRUE
    /\ VoiceStartRecording
    /\ UNCHANGED others

\* the user releases it
VoiceRelease ==
    /\ vRun # "aborted"
    /\ vBtnDown
    /\ vBtnDown' = FALSE
    /\ VoiceStopRecording
    /\ UNCHANGED others

\* _run is entered: self.loop and self.stream are assigned, the stream is
\* opened and the collect task is created
VoiceRunEnter ==
    /\ vRun = "created"
    /\ vRun' = "entered"
    /\ UNCHANGED <<vStops, vReady, vEvents, vDoc, vCursor, vBtnEnabled, vBtnDown,
                   font_config, font_size, point_size, others>>

\* self.loop.run_in_executor(self._transcribe, audio_buffer, _callback): the
\* bound method stands where the executor is expected and has no submit(),
\* so the call raises AttributeError; the with block closes the stream and
\* _run ends with the exception
VoiceRunRaise ==
    /\ vRun = "entered"
    /\ vRun' = "raised"
    /\ UNCHANGED <<vStops, vReady, vEvents, vDoc, vCursor, vBtnEnabled, vBtnDown,
                   font_config, font_size, point_size, others>>

\* asyncio.run shuts the loop down, which runs the callbacks scheduled so
\* far: the cleanup of stop() emits progress(TO_FINISH_PLACE_HOLDER, True)
VoiceLoopRun ==
    /\ vRun = "raised"
    /\ vReady # <<>>
    /\ vReady' = Tail(vReady)
    /\ vEvents' = Append(vEvents, ProgressMarker)
    /\ UNCHANGED <<vRun, vStops, vDoc, vCursor, vBtnEnabled, vBtnDown, font_config,
                   font_size, point_size, others>>

\* asyncio.run closes the loop; callbacks still scheduled are never run
VoiceLoopClose ==
    /\ vRun = "raised"
    /\ vRun' = "closed"
    /\ vReady' = <<>>
    /\ UNCHANGED <<vStops, vEvents, vDoc, vCursor, vBtnEnabled, vBtnDown, font_config,
                   font_size, point_size, others>>

\* worker.run, a slot of the thread's started signal, ends with the
\* exception of _run, and PyQt6 aborts the application
VoiceAbort ==
    /\ vRun = "closed"
    /\ vRun' = "aborted"
    /\ UNCHANGED <<vStops, vReady, vEvents, vDoc, vCursor, vBtnEnabled, vBtnDown,
                   font_config, font_size, point_size, others>>

\* _write_back(text): the slot takes the text of progress(text, html) and
\* inserts it as plain text where the cursor is
VoiceWriteBack(d, c, e) ==
    [doc |-> InsertAt(d, c, IF e.html THEN PlainPlaceHolder ELSE TextToken(1, e.batch)),
     cursor |-> c + 1]

\* the GUI thread delivers the oldest queued signal
VoiceDeliver ==
    /\ vRun # "aborted"
    /\ vEvents # <<>>
    /\ vEvents' = Tail(vEvents)
    /\ vDoc' = VoiceWriteBack(vDoc, vCursor, Head(vEvents)).doc
    /\ vCursor' = VoiceWriteBack(vDoc, vCursor, Head(vEvents)).cursor
    /\ UNCHANGED <<vRun, vStops, vReady, vBtnEnabled, vBtnDown, font_config,
                   font_size, point_size, others>>

\* decrease_font_size()
DecreaseFontSize ==
    /\ vRun # "aborted"
    /\ LET intend_size == point_size - 2
       IN IF intend_size >= MIN_FONT_SIZE
            THEN point_size' = intend_size /\ font_size' = intend_size
            ELSE UNCHANGED <<point_size, font_size>>
    /\ UNCHANGED <<vRun, vStops, vReady, vEvents, vDoc, vCursor, vBtnEnabled,
                   vBtnDown, font_config, others>>

\* increase_font_size()
IncreaseFontSize ==
    /\ vRun # "aborted"
    /\ LET intend_size == point_size + 2
       IN IF intend_size <= MAX_FONT_SIZE
            THEN point_size' = intend_size /\ font_size' = intend_size
            ELSE UNCHANGED <<point_size, font_size>>
    /\ UNCHANGED <<vRun, vStops, vReady, vEvents, vDoc, vCursor, vBtnEnabled,
                   vBtnDown, font_config, others>>

\* the window after __init__ with any configured font size
VoiceInit ==
    /\ Fresh(SmallConf, "created")
    /\ MainIdle
    /\ \E cfg \in FontConfigs : VoiceIdle(cfg)

\* the steps of the worker's thread
VoiceSession ==
    \/ VoiceRunEnter
    \/ VoiceRunRaise
    \/ VoiceLoopRun
    \/ VoiceLoopClose
    \/ VoiceAbort

VoiceNext ==
    \/ VoicePress
    \/ VoiceRelease
    \/ VoiceSession
    \/ VoiceDeliver
    \/ DecreaseFontSize
    \/ IncreaseFontSize

VoiceSpec == VoiceInit /\ [][VoiceNext]_vars


\* the threads of the worker and the GUI thread get to run
VoiceFairSpec == VoiceSpec /\ WF_vars(VoiceSession) /\ WF_vars(VoiceDeliver)

\* the to-finish marker is in the document of mainwindow.py, as a tag or as
\* the text of its source
MarkerInDocument == \E i \in DOMAIN vDoc : vDoc[i].kind \in {"tag", "plain"}

\* the run of the worker of mainwindow.py has ended
VoiceRunEnded == vRun \in {"closed", "aborted"}

VoiceStopScheduled == \E i \in DOMAIN vStops : vStops[i] = "scheduled"

\* C38: in the window of mainwindow.py a stop() that has scheduled its
\* cleanup leads to the end of the session with the record button enabled
\* again, the threads being scheduled fairly.
C38_SessionTerminates == VoiceStopScheduled ~> vBtnEnabled

\* C39: the font size of mainwindow.py lies between MIN_FONT_SIZE and
\* MAX_FONT_SIZE, whatever was configured and whatever calls of
\* increase_font_size and decrease_font_size were made, and is the point
\* size of the editor's font.
C39_FontSizeInRange ==
    /\ MIN_FONT_SIZE <= font_size
    /\ font_size <= MAX_FONT_SIZE
    /\ point_size = font_size

\* the font at its largest, where increase_font_size() changes nothing, in a
\* window whose size was not configured and so started at the default
C39_Witness ==
    /\ font_config = UnsetFont
    /\ font_size = MAX_FONT_SIZE
    /\ point_size = MAX_FONT_SIZE
    /\ ~ENABLED (IncreaseFontSize /\ font_size' # font_size)

=============================================================================
